---------------------------- MODULE Spec2Model ----------------------------
(***************************************************************************)
(* Model of backend/server.js: an express server over two mongoose         *)
(* collections (Waitlist, Thoughts), with a retrying connectDB at startup, *)
(* two submission routes, two count routes, four admin routes and /health. *)
(*                                                                         *)
(* A JavaScript string is a sequence of one-character strings.  Every      *)
(* `await` of a handler is a point where other handlers may run, so each   *)
(* handler is cut into one action per awaited storage call.                *)
(*                                                                         *)
(* Storage: the collections are MongoDB collections reached through        *)
(* mongoose.  A storage call made while mongoose is not connected rejects; *)
(* once mongoose.connect has resolved the connection stays up.  The unique *)
(* index declared by waitlistSchema exists.  Mongoose casts the filter of  *)
(* a query through the schema, setters included (every release that has   *)
(* countDocuments does), so findOne looks for the lowercased, trimmed      *)
(* email.                                                                  *)
(***************************************************************************)
EXTENDS Integers, Sequences, FiniteSets, TLC

\* ------------------------------------------------------------------ bounds
\* Number of requests issued in one behaviour; any number of them may be in
\* flight at once.
MaxRequests == 2

\* Requests are numbered in the order express dispatches them.
Clients == 1..MaxRequests

\* --------------------------------------------------------------- JS values
\* `undefined` and `null`: one-element sequences whose element is no character.
Undefined == <<"UNDEFINED">>
Null == <<"NULL">>

\* JavaScript truthiness of a string-or-undefined-or-null value (`!email`).
Truthy(v) == v # Undefined /\ v # Null /\ v # <<>>

\* \s of the regular expressions and of String.prototype.trim.
IsSpace(ch) == ch \in {" ", "\n", "\t"}

LowerChar(ch) ==
    CASE ch = "A" -> "a"
      [] ch = "B" -> "b"
      [] ch = "C" -> "c"
      [] ch = "D" -> "d"
      [] ch = "U" -> "u"
      [] ch = "X" -> "x"
      [] OTHER -> ch

\* String.prototype.toLowerCase
toLowerCase(s) == [i \in 1..Len(s) |-> LowerChar(s[i])]

RECURSIVE trimStart(_)
trimStart(s) ==
    IF s # <<>> /\ IsSpace(Head(s)) THEN trimStart(Tail(s)) ELSE s

RECURSIVE trimEnd(_)
trimEnd(s) ==
    IF s # <<>> /\ IsSpace(s[Len(s)])
    THEN trimEnd(SubSeq(s, 1, Len(s) - 1))
    ELSE s

\* String.prototype.trim
trim(s) == trimEnd(trimStart(s))

\* /^[^\s@]+@[^\s@]+\.[^\s@]+$/ .test(s)
EmailPattern(s) ==
    \E i \in 2..Len(s) :
        /\ s[i] = "@"
        /\ \A k \in 1..Len(s) : (s[k] = "@" => k = i) /\ ~IsSpace(s[k])
        /\ \E j \in (i + 2)..(Len(s) - 1) : s[j] = "."

\* ------------------------------------------------------ mongoose schemas
\* minlength of thoughtsSchema.message, also the handler's own length check.
MinLength == 10

\* connectDB's default `retries`.
DefaultRetries == 3

\* The `lowercase: true, trim: true` setters of both email paths.  Mongoose
\* runs a path's setters when it casts a document value and when it casts a
\* query filter on that path.
EmailSetters(v) == IF v = Undefined \/ v = Null THEN v ELSE trim(toLowerCase(v))

\* Casting of the filter { email: v } of Waitlist.findOne.
QueryCastNoSetters(v) == v
QueryCast(v) == EmailSetters(v)

\* `required: true` on a string path: undefined, null and '' are missing.
Required(v) == Truthy(v)

\* `match:` validator: null, undefined and '' always pass.
MatchValidator(v) == Truthy(v) => EmailPattern(v)

\* waitlistSchema.email validation of an already cast value.
WaitlistEmailValid(v) == Required(v) /\ MatchValidator(v)

\* thoughtsSchema validation of already cast values.
ThoughtsMessageValid(m) == Required(m) /\ Len(m) >= MinLength
ThoughtsEmailValid(v) == MatchValidator(v)

\* `unique: true` on waitlistSchema.email: the collection's unique index
\* rejects (E11000) an insert whose email is already indexed.
NoUniqueIndex(store, email) == FALSE
DuplicateKey(store, email) == \E i \in 1..Len(store) : store[i].email = email

\* Model.countDocuments()
CountBeforeInsert(store) == Len(store) - 1
countDocuments(store) == Len(store)

\* Values the handlers give the fields a request does not set.
DefaultSource == <<"l", "p">>
ReqIp == <<"1", ".", "2">>


\* ------------------------------------------------------------------- state
VARIABLES
    connPc,      \* connectDB: "connect" (awaiting mongoose.connect), "timer"
                 \* (setTimeout pending), "connected", "gave_up"
    retries,     \* connectDB's `retries` argument of the current call
    attempts,    \* number of mongoose.connect calls made so far
    adminKey,    \* process.env.ADMIN_API_KEY
    Waitlist,    \* the Waitlist collection, in insertion order
    Thoughts,    \* the Thoughts collection, in insertion order
    req,         \* per request: its handler's position, locals and response
    started,     \* number of requests issued so far
    clock,       \* Date.now, advanced per constructed document
    created      \* number of 201 responses of POST /api/waitlist so far

vars == <<connPc, retries, attempts, adminKey, Waitlist, Thoughts, req,
          started, clock, created>>

connState == <<connPc, retries, attempts>>

\* A header or environment value: absent, or a string.
NoKey == [present |-> FALSE, v |-> ""]
Key(s) == [present |-> TRUE, v |-> s]

\* Values of process.env.ADMIN_API_KEY: unset, set empty, set.
AdminKeys == {NoKey, Key(""), Key("secret")}
\* Values of the x-api-key header: absent, empty, the secret, one character off.
ApiKeyHeaders == {NoKey, Key(""), Key("secret"), Key("secreT")}

NoRequest ==
    [pc |-> "idle", route |-> "none", email |-> Undefined, message |-> Undefined,
     apiKey |-> NoKey, connAtStart |-> "none", heldAtStart |-> FALSE,
     overlapped |-> FALSE, doc |-> <<>>, sizeAfterSave |-> 0,
     totalCount |-> 0, status |-> 0, count |-> -1, hasData |-> FALSE,
     data |-> <<>>, csv |-> <<>>, sizeAtResp |-> 0, createdAtResp |-> 0]

InFlight(c) == req[c].pc \notin {"idle", "done"}
Free(c) == started = c - 1

\* A POST /api/waitlist handler that is between its first await and its response.
PostInFlight(c) == InFlight(c) /\ req[c].route = "POST /api/waitlist"

HoldsEmail(store, email) == \E i \in 1..Len(store) : store[i].email = email

\* The request record a client gets when express dispatches its request.
NewRequest(route, email, message, apiKey) ==
    [NoRequest EXCEPT !.route = route, !.email = email, !.message = message,
                      !.apiKey = apiKey,
                      !.connAtStart = IF connPc \in {"connected", "gave_up"}
                                      THEN connPc ELSE "pending"]

\* res.status(s).json(...) that ends a handler.
Answer(r, s) ==
    [r EXCEPT !.pc = "done", !.status = s, !.doc = <<>>]

Init ==
    /\ connPc = "connect"
    /\ retries = DefaultRetries
    /\ attempts = 1
    /\ adminKey \in AdminKeys
    /\ Waitlist = <<>>
    /\ Thoughts = <<>>
    /\ req = [c \in Clients |-> NoRequest]
    /\ started = 0
    /\ clock = 0
    /\ created = 0

\* --------------------------------------------------------------- connectDB
\* `if (retries > 0)` of the catch block.
MayRetryOffByOne(r) == r >= 0
MayRetry(r) == r > 0

\* await mongoose.connect(...) resolves.
ConnectResolved ==
    /\ connPc = "connect"
    /\ connPc' = "connected"
    /\ UNCHANGED <<retries, attempts, adminKey, Waitlist, Thoughts, req,
                   started, clock, created>>

\* await mongoose.connect(...) rejects: schedule a retry or give up.
ConnectRejected ==
    /\ connPc = "connect"
    /\ connPc' = IF MayRetry(retries) THEN "timer" ELSE "gave_up"
    /\ UNCHANGED <<retries, attempts, adminKey, Waitlist, Thoughts, req,
                   started, clock, created>>

\* The setTimeout callback: connectDB(retries - 1).
RetryTimer ==
    /\ connPc = "timer"
    /\ connPc' = "connect"
    /\ retries' = retries - 1
    /\ attempts' = attempts + 1
    /\ UNCHANGED <<adminKey, Waitlist, Thoughts, req, started, clock, created>>

connectDB == ConnectResolved \/ ConnectRejected \/ RetryTimer

\* ------------------------------------------------------ storage failures
\* An awaited storage call made while mongoose is not connected rejects
\* (buffering timed out); the handler's catch block answers 500.
StorageError(c) ==
    /\ req[c].pc \in {"findOne", "save", "count", "countOnly", "saveThought",
                      "find"}
    /\ connPc # "connected"
    /\ req' = [req EXCEPT ![c] = Answer(@, 500)]
    /\ UNCHANGED <<connState, adminKey, Waitlist, Thoughts, started, clock,
                   created>>

\* ------------------------------------------------------ POST /api/waitlist
\* The handler up to its first await.
PostWaitlist(c, email) ==
    /\ Free(c)
    /\ started' = started + 1
    /\ IF ~Truthy(email)
       THEN req' = [req EXCEPT ![c] =
                Answer(NewRequest("POST /api/waitlist", email, Undefined, NoKey), 400)]
       ELSE req' = [d \in Clients |->
                IF d = c
                THEN [NewRequest("POST /api/waitlist", email, Undefined, NoKey)
                        EXCEPT !.pc = "findOne",
                               !.heldAtStart =
                                   HoldsEmail(Waitlist, EmailSetters(email)),
                               !.overlapped = \E e \in Clients : PostInFlight(e)]
                ELSE IF InFlight(d)
                        /\ req[d].route \in {"POST /api/waitlist",
                                             "GET /api/waitlist/count"}
                     THEN [req[d] EXCEPT !.overlapped = TRUE]
                     ELSE req[d]]
    /\ UNCHANGED <<connState, adminKey, Waitlist, Thoughts, clock, created>>

\* await Waitlist.findOne({ email: email.toLowerCase() }), then either the
\* 409 answer or the construction of the new document.
WaitlistFindOne(c) ==
    /\ req[c].pc = "findOne"
    /\ connPc = "connected"
    /\ IF HoldsEmail(Waitlist, QueryCast(toLowerCase(req[c].email)))
       THEN /\ req' = [req EXCEPT ![c] = Answer(@, 409)]
            /\ clock' = clock
       ELSE /\ req' = [req EXCEPT ![c].pc = "save",
                                  ![c].doc =
                          [email |-> EmailSetters(toLowerCase(req[c].email)),
                           timestamp |-> clock + 1,
                           source |-> DefaultSource,
                           ipAddress |-> ReqIp]]
            /\ clock' = clock + 1
    /\ UNCHANGED <<connState, adminKey, Waitlist, Thoughts, started, created>>

\* await waitlistEntry.save(): schema validation, then the insert under the
\* unique index; either failure is thrown and answered 500 by the catch.
WaitlistSave(c) ==
    /\ req[c].pc = "save"
    /\ \/ ~WaitlistEmailValid(req[c].doc.email)
       \/ connPc = "connected"
    /\ IF \/ ~WaitlistEmailValid(req[c].doc.email)
          \/ DuplicateKey(Waitlist, req[c].doc.email)
       THEN /\ req' = [req EXCEPT ![c] = Answer(@, 500)]
            /\ Waitlist' = Waitlist
       ELSE /\ Waitlist' = Append(Waitlist, req[c].doc)
            /\ req' = [req EXCEPT ![c].pc = "count",
                                  ![c].sizeAfterSave = Len(Waitlist) + 1]
    /\ UNCHANGED <<connState, adminKey, Thoughts, started, clock, created>>

\* const totalCount = await Waitlist.countDocuments()
WaitlistCount(c) ==
    /\ req[c].pc = "count"
    /\ connPc = "connected"
    /\ req' = [req EXCEPT ![c].pc = "respond",
                          ![c].totalCount = countDocuments(Waitlist)]
    /\ UNCHANGED <<connState, adminKey, Waitlist, Thoughts, started, clock,
                   created>>

\* res.status(201).json({ success: true, ..., count: totalCount })
WaitlistRespond(c) ==
    /\ req[c].pc = "respond"
    /\ created' = created + 1
    /\ req' = [req EXCEPT ![c] =
                  [Answer(@, 201) EXCEPT !.count = req[c].totalCount,
                                         !.sizeAtResp = Len(Waitlist),
                                         !.createdAtResp = created + 1]]
    /\ UNCHANGED <<connState, adminKey, Waitlist, Thoughts, started, clock>>

\* ------------------------------------------------- GET /api/waitlist/count
GetWaitlistCount(c) ==
    /\ Free(c)
    /\ started' = started + 1
    /\ req' = [req EXCEPT ![c] =
                  [NewRequest("GET /api/waitlist/count", Undefined, Undefined, NoKey)
                     EXCEPT !.pc = "countOnly",
                            !.overlapped = \E e \in Clients : PostInFlight(e)]]
    /\ UNCHANGED <<connState, adminKey, Waitlist, Thoughts, clock, created>>

\* const count = await Waitlist.countDocuments(); res.json({ success, count })
WaitlistCountAnswer(c) ==
    /\ req[c].pc = "countOnly"
    /\ req[c].route = "GET /api/waitlist/count"
    /\ connPc = "connected"
    /\ req' = [req EXCEPT ![c] =
                  [Answer(@, 200) EXCEPT !.count = countDocuments(Waitlist),
                                         !.createdAtResp = created]]
    /\ UNCHANGED <<connState, adminKey, Waitlist, Thoughts, started, clock,
                   created>>

\* ------------------------------------------------------ POST /api/thoughts
\* `email ? email.toLowerCase().trim() : null`
normalizedEmail(email) == IF Truthy(email) THEN trim(toLowerCase(email)) ELSE Null

\* The whole synchronous part of the handler: the two message checks, the
\* email check, and the construction of the document (whose values the
\* schema's setters cast).
PostThoughts(c, email, message) ==
    /\ Free(c)
    /\ started' = started + 1
    /\ LET r == NewRequest("POST /api/thoughts", email, message, NoKey) IN
       IF \/ ~Truthy(message)
          \/ Len(message) < MinLength
          \/ (Truthy(normalizedEmail(email))
                /\ ~EmailPattern(normalizedEmail(email)))
       THEN /\ req' = [req EXCEPT ![c] = Answer(r, 400)]
            /\ clock' = clock
       ELSE /\ req' = [req EXCEPT ![c] =
                  [r EXCEPT !.pc = "saveThought",
                            !.doc = [email |-> EmailSetters(normalizedEmail(email)),
                                     message |-> trim(trim(message)),
                                     timestamp |-> clock + 1,
                                     source |-> DefaultSource,
                                     ipAddress |-> ReqIp]]]
            /\ clock' = clock + 1
    /\ UNCHANGED <<connState, adminKey, Waitlist, Thoughts, created>>

\* await thoughtsEntry.save(), then the 201 answer; a schema validation
\* failure is thrown and answered 500 by the catch.
ThoughtsSave(c) ==
    /\ req[c].pc = "saveThought"
    /\ LET valid == /\ ThoughtsMessageValid(req[c].doc.message)
                    /\ ThoughtsEmailValid(req[c].doc.email)
       IN /\ ~valid \/ connPc = "connected"
          /\ IF ~valid
             THEN /\ req' = [req EXCEPT ![c] = Answer(@, 500)]
                  /\ Thoughts' = Thoughts
             ELSE /\ Thoughts' = Append(Thoughts, req[c].doc)
                  /\ req' = [req EXCEPT ![c] =
                        [Answer(@, 201) EXCEPT !.sizeAfterSave = Len(Thoughts) + 1]]
    /\ UNCHANGED <<connState, adminKey, Waitlist, started, clock, created>>

\* ------------------------------------------------- GET /api/thoughts/count
GetThoughtsCount(c) ==
    /\ Free(c)
    /\ started' = started + 1
    /\ req' = [req EXCEPT ![c] =
                  [NewRequest("GET /api/thoughts/count", Undefined, Undefined, NoKey)
                     EXCEPT !.pc = "countOnly"]]
    /\ UNCHANGED <<connState, adminKey, Waitlist, Thoughts, clock, created>>

ThoughtsCountAnswer(c) ==
    /\ req[c].pc = "countOnly"
    /\ req[c].route = "GET /api/thoughts/count"
    /\ connPc = "connected"
    /\ req' = [req EXCEPT ![c] =
                  [Answer(@, 200) EXCEPT !.count = countDocuments(Thoughts)]]
    /\ UNCHANGED <<connState, adminKey, Waitlist, Thoughts, started, clock,
                   created>>

\* ------------------------------------------------------------ admin routes
AdminRoutes ==
    {"GET /api/waitlist/all", "GET /api/thoughts/all",
     "GET /api/waitlist/export", "GET /api/thoughts/export"}

\* `apiKey !== process.env.ADMIN_API_KEY`
Unauthorized(apiKey) == apiKey # adminKey

\* Each admin handler up to its first await: the key check, then find().
GetAdmin(c, route, apiKey) ==
    /\ Free(c)
    /\ started' = started + 1
    /\ req' = [req EXCEPT ![c] =
                  IF Unauthorized(apiKey)
                  THEN Answer(NewRequest(route, Undefined, Undefined, apiKey), 401)
                  ELSE [NewRequest(route, Undefined, Undefined, apiKey)
                          EXCEPT !.pc = "find"]]
    /\ UNCHANGED <<connState, adminKey, Waitlist, Thoughts, clock, created>>

\* .sort({ timestamp: -1 })
RECURSIVE InsertDesc(_, _)
InsertDesc(e, sorted) ==
    IF sorted = <<>> \/ e.timestamp >= Head(sorted).timestamp
    THEN <<e>> \o sorted
    ELSE <<Head(sorted)>> \o InsertDesc(e, Tail(sorted))

RECURSIVE SortDesc(_)
SortDesc(store) ==
    IF store = <<>> THEN <<>> ELSE InsertDesc(Head(store), SortDesc(Tail(store)))

\* .select('email timestamp source') and .select('email message timestamp source')
SelectWaitlist(docs) ==
    [i \in 1..Len(docs) |->
        [email |-> docs[i].email, timestamp |-> docs[i].timestamp,
         source |-> docs[i].source]]
SelectThoughts(docs) ==
    [i \in 1..Len(docs) |->
        [email |-> docs[i].email, message |-> docs[i].message,
         timestamp |-> docs[i].timestamp, source |-> docs[i].source]]

\* new Date(entry.timestamp).toLocaleString(), e.g. "11/2/2026, 12:25:00 AM"
toLocaleString(ts) == <<ToString(ts), ",", " ", "0">>

\* message.replace(/"/g, '""')
RECURSIVE replaceQuotes(_)
replaceQuotes(s) ==
    IF s = <<>> THEN <<>>
    ELSE (IF Head(s) = "\"" THEN <<"\"", "\"">> ELSE <<Head(s)>>)
         \o replaceQuotes(Tail(s))

WaitlistCsvHeader ==
    <<"E", "m", "a", "i", "l", ",",
      "S", "i", "g", "n", "u", "p", " ", "D", "a", "t", "e", ",",
      "S", "o", "u", "r", "c", "e", ",",
      "I", "P", " ", "A", "d", "d", "r", "e", "s", "s", "\n">>

ThoughtsCsvHeader ==
    <<"E", "m", "a", "i", "l", ",",
      "M", "e", "s", "s", "a", "g", "e", ",",
      "D", "a", "t", "e", ",",
      "S", "o", "u", "r", "c", "e", ",",
      "I", "P", " ", "A", "d", "d", "r", "e", "s", "s", "\n">>

\* `${entry.email},${date},${entry.source},${entry.ipAddress}\n`
WaitlistCsvRow(entry) ==
    entry.email \o <<",">> \o toLocaleString(entry.timestamp) \o <<",">>
    \o entry.source \o <<",">> \o entry.ipAddress \o <<"\n">>

\* `"${entry.email || ''}","${entry.message.replace(/"/g, '""')}","${date}",
\*  "${entry.source}","${entry.ipAddress}"\n`
ThoughtsCsvRow(entry) ==
    <<"\"">> \o (IF Truthy(entry.email) THEN entry.email ELSE <<>>)
    \o <<"\"", ",", "\"">> \o replaceQuotes(entry.message)
    \o <<"\"", ",", "\"">> \o toLocaleString(entry.timestamp)
    \o <<"\"", ",", "\"">> \o entry.source
    \o <<"\"", ",", "\"">> \o entry.ipAddress \o <<"\"", "\n">>

\* let csv = header; docs.forEach(entry => { csv += row })
RECURSIVE WaitlistCsvRows(_)
WaitlistCsvRows(docs) ==
    IF docs = <<>> THEN <<>>
    ELSE WaitlistCsvRow(Head(docs)) \o WaitlistCsvRows(Tail(docs))

RECURSIVE ThoughtsCsvRows(_)
ThoughtsCsvRows(docs) ==
    IF docs = <<>> THEN <<>>
    ELSE ThoughtsCsvRow(Head(docs)) \o ThoughtsCsvRows(Tail(docs))

\* The four handlers after `await Model.find().sort(...)`.
WaitlistAllAnswer(c) ==
    /\ req[c].pc = "find" /\ req[c].route = "GET /api/waitlist/all"
    /\ connPc = "connected"
    /\ req' = [req EXCEPT ![c] =
          [Answer(@, 200) EXCEPT !.count = Len(Waitlist), !.hasData = TRUE,
                                 !.data = SelectWaitlist(SortDesc(Waitlist))]]
    /\ UNCHANGED <<connState, adminKey, Waitlist, Thoughts, started, clock,
                   created>>

ThoughtsAllAnswer(c) ==
    /\ req[c].pc = "find" /\ req[c].route = "GET /api/thoughts/all"
    /\ connPc = "connected"
    /\ req' = [req EXCEPT ![c] =
          [Answer(@, 200) EXCEPT !.count = Len(Thoughts), !.hasData = TRUE,
                                 !.data = SelectThoughts(SortDesc(Thoughts))]]
    /\ UNCHANGED <<connState, adminKey, Waitlist, Thoughts, started, clock,
                   created>>

WaitlistExportAnswer(c) ==
    /\ req[c].pc = "find" /\ req[c].route = "GET /api/waitlist/export"
    /\ connPc = "connected"
    /\ req' = [req EXCEPT ![c] =
          [Answer(@, 200) EXCEPT
              !.hasData = TRUE,
              !.data = SortDesc(Waitlist),
              !.csv = WaitlistCsvHeader \o WaitlistCsvRows(SortDesc(Waitlist))]]
    /\ UNCHANGED <<connState, adminKey, Waitlist, Thoughts, started, clock,
                   created>>

ThoughtsExportAnswer(c) ==
    /\ req[c].pc = "find" /\ req[c].route = "GET /api/thoughts/export"
    /\ connPc = "connected"
    /\ req' = [req EXCEPT ![c] =
          [Answer(@, 200) EXCEPT
              !.hasData = TRUE,
              !.data = SortDesc(Thoughts),
              !.csv = ThoughtsCsvHeader \o ThoughtsCsvRows(SortDesc(Thoughts))]]
    /\ UNCHANGED <<connState, adminKey, Waitlist, Thoughts, started, clock,
                   created>>

\* ------------------------------------------------------------- GET /health
Health(c) ==
    /\ Free(c)
    /\ started' = started + 1
    /\ req' = [req EXCEPT ![c] =
                  Answer(NewRequest("GET /health", Undefined, Undefined, NoKey), 200)]
    /\ UNCHANGED <<connState, adminKey, Waitlist, Thoughts, clock, created>>

\* ----------------------------------------------------------------- inputs
\* Emails submitted to POST /api/waitlist: missing, one address in three
\* spellings, a second address, a malformed one.
EmailPlain == <<"a", "@", "b", ".", "c">>
EmailUpper == <<"A", "@", "B", ".", "c">>
EmailPadded == <<" ", "a", "@", "b", ".", "c", " ">>
EmailOther == <<"x", "@", "b", ".", "c">>
EmailMalformed == <<"a", "b">>

WaitlistEmails ==
    {Undefined, EmailPlain, EmailUpper, EmailPadded, EmailOther, EmailMalformed}

\* Emails submitted to POST /api/thoughts: none, a blank one, a valid one
\* holding a double quote, a valid one in upper case, a malformed one.
EmailBlank == <<" ", " ">>
EmailQuoted == <<"\"", "@", "b", ".", "c">>
ThoughtsEmails == {Undefined, EmailBlank, EmailQuoted, EmailUpper, EmailMalformed}

\* Messages: none, 2 characters, 2 characters padded to 10 with spaces, 10
\* characters with a comma, quotes and a newline, and the same padded.
MsgShort == <<"h", "i">>
MsgPaddedShort == <<"h", "i", " ", " ", " ", " ", " ", " ", " ", " ">>
MsgSpecial == <<"a", ",", "\"", "b", "\"", "\n", "c", "d", "e", "f">>
MsgPadded == <<" ">> \o MsgSpecial \o <<"\n">>
ThoughtsMessages == {Undefined, MsgShort, MsgPaddedShort, MsgSpecial, MsgPadded}

\* ------------------------------------------------------- waitlist workload
NextWaitlist ==
    \/ connectDB
    \/ \E c \in Clients :
        \/ \E email \in WaitlistEmails : PostWaitlist(c, email)
        \/ WaitlistFindOne(c)
        \/ WaitlistSave(c)
        \/ WaitlistCount(c)
        \/ WaitlistRespond(c)
        \/ GetWaitlistCount(c)
        \/ WaitlistCountAnswer(c)
        \/ StorageError(c)

\* The waitlist routes read no admin key: one environment stands for all.
InitWaitlist == Init /\ adminKey = NoKey

SpecWaitlist == InitWaitlist /\ [][NextWaitlist]_vars

\* -------------------------------------------------------- startup workload
NextStartup ==
    \/ connectDB
    \/ \E c \in Clients :
        \/ Health(c)
        \/ GetWaitlistCount(c)
        \/ WaitlistCountAnswer(c)
        \/ GetThoughtsCount(c)
        \/ ThoughtsCountAnswer(c)
        \/ PostWaitlist(c, EmailPlain)
        \/ WaitlistFindOne(c)
        \/ WaitlistSave(c)
        \/ WaitlistCount(c)
        \/ WaitlistRespond(c)
        \/ StorageError(c)

\* The steps that take the handler of request c forward; one of them is
\* enabled whenever the handler awaits.
Handler(c) ==
    \/ WaitlistFindOne(c) \/ WaitlistSave(c) \/ WaitlistCount(c)
    \/ WaitlistRespond(c) \/ WaitlistCountAnswer(c) \/ ThoughtsCountAnswer(c)
    \/ StorageError(c)

\* mongoose.connect settles and the event loop fires the retry timer; every
\* awaited storage call settles.
SpecStartup ==
    /\ InitWaitlist
    /\ [][NextStartup]_vars
    /\ WF_vars(connectDB)
    /\ \A c \in Clients : WF_vars(Handler(c))

\* ------------------------------------------------------------ whole server
Next ==
    \/ connectDB
    \/ \E c \in Clients :
        \/ \E email \in WaitlistEmails : PostWaitlist(c, email)
        \/ WaitlistFindOne(c)
        \/ WaitlistSave(c)
        \/ WaitlistCount(c)
        \/ WaitlistRespond(c)
        \/ \E email \in ThoughtsEmails, message \in ThoughtsMessages :
              PostThoughts(c, email, message)
        \/ ThoughtsSave(c)
        \/ GetWaitlistCount(c)
        \/ WaitlistCountAnswer(c)
        \/ GetThoughtsCount(c)
        \/ ThoughtsCountAnswer(c)
        \/ \E route \in AdminRoutes, apiKey \in ApiKeyHeaders :
              GetAdmin(c, route, apiKey)
        \/ WaitlistAllAnswer(c)
        \/ ThoughtsAllAnswer(c)
        \/ WaitlistExportAnswer(c)
        \/ ThoughtsExportAnswer(c)
        \/ Health(c)
        \/ StorageError(c)

Spec == Init /\ [][Next]_vars

\* --------------------------------------------------------- waitlist claims
\* A finished POST /api/waitlist request.
PostDone(c) == req[c].pc = "done" /\ req[c].route = "POST /api/waitlist"

\* Its email is present and, lowercased and trimmed, matches the pattern.
ValidEmail(c) == Truthy(req[c].email) /\ EmailPattern(EmailSetters(req[c].email))

\* C1: in every reachable state no two stored WaitlistEntry records have the
\* same normalized (lowercased, trimmed) email.
C1_UniqueNormalizedEmail ==
    \A i, j \in 1..Len(Waitlist) :
        i # j => EmailSetters(Waitlist[i].email) # EmailSetters(Waitlist[j].email)

\* C1 witness: two requests with the same valid email both passed findOne,
\* one insert succeeded and the other was rejected by the unique index.
C1_Witness ==
    \E c, d \in Clients :
        /\ c # d /\ PostDone(c) /\ PostDone(d)
        /\ ValidEmail(c) /\ ValidEmail(d)
        /\ EmailSetters(req[c].email) = EmailSetters(req[d].email)
        /\ ~req[c].heldAtStart /\ ~req[d].heldAtStart
        /\ req[c].connAtStart = "connected" /\ req[d].connAtStart = "connected"
        /\ req[c].status = 201 /\ req[d].status = 500
        /\ Len(Waitlist) = 1

\* C2: two POST /api/waitlist requests run one after the other, storage
\* connected, on a store not yet holding the email, with valid emails that
\* normalize to the same value: the first answers 201, the second 409.
C2_TwiceSuccessThenConflict ==
    \A c, d \in Clients :
        ( /\ c < d /\ PostDone(c) /\ PostDone(d)
          /\ ValidEmail(c) /\ ValidEmail(d)
          /\ EmailSetters(req[c].email) = EmailSetters(req[d].email)
          /\ ~req[c].overlapped /\ ~req[c].heldAtStart
          /\ req[c].connAtStart = "connected" )
        => req[c].status = 201 /\ req[d].status = 409

\* C2 witness: the second request spells the stored email differently.
C2_Witness ==
    \E c, d \in Clients :
        /\ c < d /\ PostDone(c) /\ PostDone(d)
        /\ req[c].email = EmailPlain /\ req[d].email = EmailPadded
        /\ ~req[c].overlapped /\ ~req[c].heldAtStart
        /\ req[c].connAtStart = "connected"
        /\ req[c].status = 201 /\ req[d].status = 409

\* C3: under any interleaving of POST /api/waitlist requests for the same
\* valid email with storage connected, every request answers 201 or 409,
\* none 500, and exactly one of them answers 201.
C3_ConcurrentDuplicateAnswers409 ==
    \A c \in Clients :
        (PostDone(c) /\ ValidEmail(c) /\ req[c].connAtStart = "connected")
        => /\ req[c].status \in {201, 409}
           /\ \A d \in Clients :
                ( /\ d # c /\ PostDone(d) /\ ValidEmail(d)
                  /\ EmailSetters(req[d].email) = EmailSetters(req[c].email)
                  /\ req[c].status = 201 )
                => req[d].status # 201

\* C6: every POST /api/waitlist request, storage connected, whose email is
\* missing or does not match the pattern once normalized answers 400, and no
\* stored WaitlistEntry has such an email.
C6_MalformedEmailAnswers400 ==
    /\ \A c \in Clients :
        (PostDone(c) /\ ~ValidEmail(c) /\ req[c].connAtStart = "connected")
        => req[c].status = 400
    /\ \A i \in 1..Len(Waitlist) : EmailPattern(Waitlist[i].email)

\* C10: the count of a 201 answer is at least 1, at least the number of
\* entries stored right after the request's own insert and at most the
\* number stored when the answer is sent; with no concurrent submission it
\* equals the number of successful submissions so far, and so does the count
\* GET /api/waitlist/count answers.
C10_CountBounds ==
    \A c \in Clients :
        /\ (PostDone(c) /\ req[c].status = 201)
           => /\ req[c].count >= 1
              /\ req[c].count >= req[c].sizeAfterSave
              /\ req[c].count <= req[c].sizeAtResp
              /\ ~req[c].overlapped => req[c].count = req[c].createdAtResp
        /\ ( /\ req[c].pc = "done" /\ req[c].route = "GET /api/waitlist/count"
             /\ req[c].status = 200 /\ ~req[c].overlapped )
           => req[c].count = req[c].createdAtResp

\* C10 witness: a 201 answer whose count is already stale when it is sent,
\* another submission having been inserted after the count was read.
C10_Witness ==
    \E c \in Clients :
        /\ PostDone(c) /\ req[c].status = 201
        /\ req[c].count = req[c].sizeAfterSave
        /\ req[c].count < req[c].sizeAtResp

\* --------------------------------------------------------- thoughts claims
ThoughtsDone(c) == req[c].pc = "done" /\ req[c].route = "POST /api/thoughts"

\* The message is present and at least MinLength long once trimmed.
ValidMessage(m) == Truthy(m) /\ Len(trim(m)) >= MinLength

\* The request of c created exactly the ThoughtEntry it reports, holding m.
CreatedThought(c, m) ==
    /\ req[c].sizeAfterSave \in 1..Len(Thoughts)
    /\ Thoughts[req[c].sizeAfterSave].message = m

\* C4: a POST /api/thoughts request with no email, storage connected: a
\* message that is absent or shorter than 10 once trimmed answers 400 and
\* creates no ThoughtEntry; otherwise the answer is 201 and one ThoughtEntry
\* holding the trimmed message is created.
C4_MessageLengthAfterTrim ==
    \A c \in Clients :
        ( /\ ThoughtsDone(c) /\ req[c].email = Undefined
          /\ req[c].connAtStart = "connected" )
        => IF ValidMessage(req[c].message)
           THEN req[c].status = 201 /\ CreatedThought(c, trim(req[c].message))
           ELSE req[c].status = 400 /\ req[c].sizeAfterSave = 0

\* C7: a POST /api/thoughts request with a valid message and an email,
\* storage connected: an email that does not match the pattern once
\* normalized (a blank one included) answers 400 and creates nothing, a
\* matching one answers 201; no stored ThoughtEntry has an email that is
\* present and fails the pattern.
C7_ThoughtsEmailValidated ==
    /\ \A c \in Clients :
        ( /\ ThoughtsDone(c) /\ req[c].email # Undefined
          /\ ValidMessage(req[c].message)
          /\ req[c].connAtStart = "connected" )
        => IF EmailPattern(EmailSetters(req[c].email))
           THEN req[c].status = 201
           ELSE req[c].status = 400 /\ req[c].sizeAfterSave = 0
    /\ \A i \in 1..Len(Thoughts) :
        Thoughts[i].email # Null => EmailPattern(Thoughts[i].email)

\* ------------------------------------------------------------ admin claims
AdminDone(c) == req[c].pc = "done" /\ req[c].route \in AdminRoutes

\* C5: on each admin route and whatever admin key the server holds, a request
\* (received with storage connected) whose x-api-key header is absent, empty
\* or differs from the configured value answers 401 and carries no stored
\* record data.
C5_AdminGateRejects ==
    \A c \in Clients :
        ( /\ AdminDone(c)
          /\ req[c].connAtStart = "connected"
          /\ \/ ~req[c].apiKey.present
             \/ req[c].apiKey.v = ""
             \/ req[c].apiKey # adminKey )
        => /\ req[c].status = 401
           /\ ~req[c].hasData /\ req[c].data = <<>> /\ req[c].csv = <<>>

\* ------------------------------------------------------------- CSV parsing
\* A standard CSV reader (RFC 4180): fields are separated by commas and
\* records ended by newlines, except inside double quotes; a field wrapped in
\* double quotes stands for its inside, where a doubled quote is one quote.
\* A comma or newline is outside quotes exactly when an even number of quote
\* characters precede it.
QuotesBefore(text, i) == Cardinality({k \in 1..(i - 1) : text[k] = "\""})

Separators(text) ==
    {i \in 1..Len(text) : text[i] \in {",", "\n"} /\ QuotesBefore(text, i) % 2 = 0}

\* The ends of the records: the newlines outside quotes, and the end of the
\* text when it does not end a record.
RecordEnds(text) ==
    LET nl == {i \in Separators(text) : text[i] = "\n"} IN
    IF text = <<>> \/ Len(text) \in nl THEN nl ELSE nl \cup {Len(text) + 1}

\* The k-th smallest element of a set of numbers (0 for k = 0).
Nth(S, k) == IF k = 0 THEN 0 ELSE CHOOSE x \in S : Cardinality({y \in S : y <= x}) = k

RECURSIVE Undouble(_)
Undouble(s) ==
    IF s = <<>> THEN <<>>
    ELSE IF Len(s) >= 2 /\ s[1] = "\"" /\ s[2] = "\""
    THEN <<"\"">> \o Undouble(SubSeq(s, 3, Len(s)))
    ELSE <<Head(s)>> \o Undouble(Tail(s))

Unquote(raw) ==
    IF Len(raw) >= 2 /\ raw[1] = "\"" /\ raw[Len(raw)] = "\""
    THEN Undouble(SubSeq(raw, 2, Len(raw) - 1))
    ELSE raw

\* The fields of the record that spans text[from..to], `to` being its end.
ParseRecord(text, from, to) ==
    LET ends == {i \in Separators(text) : from <= i /\ i < to} \cup {to} IN
    [f \in 1..Cardinality(ends) |->
        Unquote(SubSeq(text,
                       IF f = 1 THEN from ELSE Nth(ends, f - 1) + 1,
                       Nth(ends, f) - 1))]

ParseCsv(text) ==
    LET ends == RecordEnds(text) IN
    [r \in 1..Cardinality(ends) |->
        ParseRecord(text, Nth(ends, r - 1) + 1, Nth(ends, r))]

\* The field values of a ThoughtEntry in the export's column order; an
\* absent email is the empty field.
ThoughtFields(entry) ==
    << IF Truthy(entry.email) THEN entry.email ELSE <<>>,
       entry.message,
       toLocaleString(entry.timestamp),
       entry.source,
       entry.ipAddress >>

HasSpecials(m) ==
    /\ \E i \in 1..Len(m) : m[i] = ","
    /\ \E i \in 1..Len(m) : m[i] = "\""
    /\ \E i \in 1..Len(m) : m[i] = "\n"

ExportDone(c) ==
    /\ req[c].pc = "done" /\ req[c].route = "GET /api/thoughts/export"
    /\ req[c].status = 200

\* C9: when every exported ThoughtEntry has a message containing a comma, a
\* double quote and a newline, parsing the CSV of GET /api/thoughts/export
\* yields, after the header row, one row per record, in order, whose fields
\* equal the record's field values.
C9_ThoughtsCsvRoundTrip ==
    \A c \in Clients :
        ( /\ ExportDone(c)
          /\ \A i \in 1..Len(req[c].data) : HasSpecials(req[c].data[i].message) )
        => LET rows == ParseCsv(req[c].csv) IN
           /\ Len(rows) = Len(req[c].data) + 1
           /\ \A i \in 1..Len(req[c].data) :
                rows[i + 1] = ThoughtFields(req[c].data[i])

\* ---------------------------------------------------------- startup claims
\* The same for the records whose email holds no double quote.
NoQuoteInEmail(entry) == \A k \in 1..Len(entry.email) : entry.email[k] # "\""
RoundTripWithoutQuotedEmail ==
    \A c \in Clients :
        ( /\ ExportDone(c)
          /\ \A i \in 1..Len(req[c].data) : NoQuoteInEmail(req[c].data[i]) )
        => LET rows == ParseCsv(req[c].csv) IN
           /\ Len(rows) = Len(req[c].data) + 1
           /\ rows[1] = << <<"E", "m", "a", "i", "l">>,
                           <<"M", "e", "s", "s", "a", "g", "e">>,
                           <<"D", "a", "t", "e">>,
                           <<"S", "o", "u", "r", "c", "e">>,
                           <<"I", "P", " ", "A", "d", "d", "r", "e", "s", "s">> >>
           /\ \A i \in 1..Len(req[c].data) :
                rows[i + 1] = ThoughtFields(req[c].data[i])

\* C8: connectDB makes at most 4 connection attempts, none after one
\* succeeded or after it gave up; it always ends (connected or given up) and
\* no request stays unanswered; a request received after it gave up is
\* answered 200 by /health and 500 by the storage routes.
C8_ConnectRetriesBounded ==
    /\ [](attempts <= DefaultRetries + 1)
    /\ [](connPc = "gave_up" => attempts = DefaultRetries + 1)
    /\ [][connPc = "connected" => connPc' = "connected" /\ attempts' = attempts]_vars
    /\ [][connPc = "gave_up" => connPc' = "gave_up" /\ attempts' = attempts]_vars
    /\ <>[](connPc \in {"connected", "gave_up"} /\ \A c \in Clients : ~InFlight(c))
    /\ [](\A c \in Clients :
            (req[c].pc = "done" /\ req[c].connAtStart = "gave_up")
            => IF req[c].route = "GET /health" THEN req[c].status = 200
               ELSE req[c].status = 500)

\* C8 witness: all 4 attempts failed, and afterwards /health answered 200
\* and a count route answered 500.
C8_Witness ==
    /\ connPc = "gave_up" /\ attempts = DefaultRetries + 1 /\ retries = 0
    /\ \E c, d \in Clients :
        /\ req[c].pc = "done" /\ req[c].route = "GET /health"
        /\ req[c].connAtStart = "gave_up" /\ req[c].status = 200
        /\ req[d].pc = "done" /\ req[d].route = "GET /api/waitlist/count"
        /\ req[d].connAtStart = "gave_up" /\ req[d].status = 500

=============================================================================
